---- MODULE Spec2Model ----
(***************************************************************************)
(* Ghost Relay (src/index.js): presence maps, store-and-forward message    *)
(* queue and identity directory, modelled as a state machine.              *)
(*                                                                         *)
(* Every handler that awaits a database query is split at its await        *)
(* points: the statement executes atomically in the database, and other    *)
(* handlers may run before the awaiting handler resumes.                   *)
(***************************************************************************)
EXTENDS Integers, Sequences, FiniteSets, TLC

(***************************************************************************)
(* Bounds of the model                                                     *)
(***************************************************************************)
\* number of socket.io connections that are ever opened
MaxSockets == 2
\* number of times the clock advances
MaxTicks == 2
\* number of POST /identity requests that are ever made
MaxUpserts == 3

(***************************************************************************)
(* Program constants                                                       *)
(***************************************************************************)
\* 24 * 60 * 60 * 1000 ms, the retention window of the cleanup job
RetentionMs == 86400000

(***************************************************************************)
(* Values                                                                  *)
(***************************************************************************)
\* JS null / undefined
None == "none"
\* identifier strings; the same strings are used as peer ids and as hashes
Values == {"a", "b"}
\* what a client may put in an identifier field: a string or nothing
ValueInputs == Values \cup {None}
MsgIds == {"m1", "m2"}
Payloads == {"x", "y"}
Sockets == 1..MaxSockets
\* "no socket"
NoSocket == 0

\* JS truthiness of a string-or-undefined value
Truthy(v) == v /= None /\ v /= ""
\* JS a || b
Or(a, b) == IF Truthy(a) THEN a ELSE b

VARIABLES
    sockState,       \* per socket: "new" (not yet connected), "open", "closed"
    sockPeerId,      \* socket.peerId
    sockMobileHash,  \* socket.mobileHash
    onlinePeers,     \* Map peerId -> socket id
    onlineHashes,    \* Map mobileHash -> socket id
    messages,        \* table messages: a set of rows
    now,             \* Date.now()
    ticks,           \* how often the clock has advanced
    joinH,           \* per socket: the running 'join' handler, if any
    sendH,           \* the running POST /send handler, if any
    last,            \* the last event handled and what it answered / emitted
    identities,      \* table identities: username -> row
    peerid_history,  \* table peerid_history, in order of its serial id
    idH,             \* the POST /identity handlers, by request
    lastPeerReg,     \* history: the socket that last joined with each peer id
    pushLog          \* history: the <<socket, message id>> pairs pushed so far

vars == <<sockState, sockPeerId, sockMobileHash, onlinePeers, onlineHashes,
          messages, now, ticks, joinH, sendH, last,
          identities, peerid_history, idH, lastPeerReg, pushLog>>

presenceVars == <<onlinePeers, onlineHashes>>
socketVars == <<sockState, sockPeerId, sockMobileHash>>
clockVars == <<now, ticks>>
idVars == <<identities, peerid_history, idH>>
histVars == <<lastPeerReg, pushLog>>

(***************************************************************************)
(* Map helpers (JS Map)                                                    *)
(***************************************************************************)
EmptyMap == [k \in {} |-> NoSocket]
MapHas(m, k) == k \in DOMAIN m
MapGet(m, k) == IF k \in DOMAIN m THEN m[k] ELSE NoSocket
MapSet(m, k, v) == [x \in DOMAIN m \cup {k} |-> IF x = k THEN v ELSE m[x]]
MapDelete(m, k) == [x \in DOMAIN m \ {k} |-> m[x]]

(***************************************************************************)
(* Events and responses                                                    *)
(***************************************************************************)
Event(to, ev, id, data, from) ==
    [to |-> to, ev |-> ev, id |-> id, data |-> data, from |-> from]

\* socket.emit / io.to(socketId).emit: reaches the socket only while it is
\* connected; an emit to a socket id that has left is dropped
Emit(to, ev, id, data, from) ==
    IF to \in Sockets /\ sockState[to] = "open"
    THEN <<Event(to, ev, id, data, from)>>
    ELSE <<>>

\* the parameters of a request or event; None where it has no such field
Req(id, toHash, to, data) == [id |-> id, toHash |-> toHash, to |-> to, data |-> data]
NoReq == Req(None, None, None, None)

\* op: the event handled; who: the socket it came from; req: its parameters;
\* status: the HTTP status answered (0: none); live: liveDelivered / isOnline;
\* rows: the rows answered or pushed so far; emits: the events emitted
Last(op, who, req, status, live, rows, emits) ==
    [op |-> op, who |-> who, req |-> req, status |-> status, live |-> live,
     rows |-> rows, emits |-> emits]

NoJoin == [pc |-> "idle", peerId |-> None, mobileHash |-> None, rows |-> <<>>,
           pushed |-> <<>>, failed |-> FALSE]
NoSend == [pc |-> "idle", id |-> None, toHash |-> None, to |-> None,
           data |-> None, ts |-> 0]

(***************************************************************************)
(* Table messages                                                          *)
(***************************************************************************)
Row(id, to_hash, to_peer, data, timestamp) ==
    [id |-> id, to_hash |-> to_hash, to_peer |-> to_peer, data |-> data,
     timestamp |-> timestamp]

\* the orders in which a scan can return a set of rows
ScanOrders(S) ==
    {q \in [1..Cardinality(S) -> S] : \A i, j \in DOMAIN q : i /= j => q[i] /= q[j]}

RECURSIVE InsertByTimestamp(_, _)
InsertByTimestamp(sorted, r) ==
    IF sorted = <<>> THEN <<r>>
    ELSE IF r.timestamp < Head(sorted).timestamp THEN <<r>> \o sorted
    ELSE <<Head(sorted)>> \o InsertByTimestamp(Tail(sorted), r)

\* a scan returned as it comes, without ORDER BY
Unordered(q) == q

RECURSIVE OrderByTimestamp(_)
\* ORDER BY timestamp ASC applied to a scan
OrderByTimestamp(q) ==
    IF q = <<>> THEN <<>>
    ELSE InsertByTimestamp(OrderByTimestamp(SubSeq(q, 1, Len(q) - 1)), q[Len(q)])

\* a hash lookup that also matches the peer-id column
WhereToHashOrPeer(tbl, h) == {r \in tbl : r.to_hash = h \/ r.to_peer = h}

\* WHERE to_hash = $1
WhereToHash(tbl, h) == {r \in tbl : r.to_hash /= None /\ r.to_hash = h}
\* WHERE to_peer = $1
WhereToPeer(tbl, p) == {r \in tbl : r.to_peer /= None /\ r.to_peer = p}
\* a legacy query without the to_hash IS NULL condition
WhereToPeerAnyHash(tbl, p) == WhereToPeer(tbl, p)

\* WHERE to_peer = $1 AND to_hash IS NULL
WhereToPeerNoHash(tbl, p) == {r \in WhereToPeer(tbl, p) : r.to_hash = None}

\* an insert without the primary key on id
InsertAlways(tbl, r) == tbl \cup {r}

\* an insert that replaces the stored row on a conflict
InsertOrReplace(tbl, r) == {x \in tbl : x.id /= r.id} \cup {r}

\* INSERT ... ON CONFLICT (id) DO NOTHING
InsertMessage(tbl, r) ==
    IF \E x \in tbl : x.id = r.id THEN tbl ELSE tbl \cup {r}

\* a delete that has no WHERE clause
DeleteEveryRow(tbl, id) == {}

\* DELETE FROM messages WHERE id = $1
DeleteById(tbl, id) == {r \in tbl : r.id /= id}

\* a sweep that also removes the rows exactly as old as the cutoff
DeleteNotNewerThan(tbl, cutoff) == {r \in tbl : ~(r.timestamp <= cutoff)}

\* DELETE FROM messages WHERE timestamp < $1
DeleteOlderThan(tbl, cutoff) == {r \in tbl : ~(r.timestamp < cutoff)}

(***************************************************************************)
(* Tables identities and peerid_history                                    *)
(***************************************************************************)
Requests == 1..MaxUpserts
EmptyTable == [k \in {} |-> None]
\* a row of identities
IdentityRow(blob, peer_id, display_name, timestamp) ==
    [encrypted_blob |-> blob, peer_id |-> peer_id, display_name |-> display_name,
     timestamp |-> timestamp]

\* rows[0] || null of SELECT peer_id, display_name: found tells the two apart
Existing(tbl, username) ==
    IF username \in DOMAIN tbl
    THEN [found |-> TRUE, peer_id |-> tbl[username].peer_id,
          display_name |-> tbl[username].display_name]
    ELSE [found |-> FALSE, peer_id |-> None, display_name |-> None]

\* a row of peerid_history; its serial id is its position in the sequence
HistoryRow(username, display_name, old_peer_id, new_peer_id, source, timestamp) ==
    [username_hash |-> username, display_name |-> display_name,
     old_peer_id |-> old_peer_id, new_peer_id |-> new_peer_id, source |-> source,
     timestamp |-> timestamp]

\* a POST /identity handler: its position, the request body, the row it read,
\* and, as history, the stored peer id and the length of peerid_history when
\* the request arrived
NoIdentity == [pc |-> "new", username |-> None, blob |-> None, peerId |-> None,
               displayName |-> None,
               existing |-> [found |-> FALSE, peer_id |-> None, display_name |-> None],
               old0 |-> None, hist0 |-> 0]

Init ==
    /\ sockState = [s \in Sockets |-> "new"]
    /\ sockPeerId = [s \in Sockets |-> None]
    /\ sockMobileHash = [s \in Sockets |-> None]
    /\ onlinePeers = EmptyMap
    /\ onlineHashes = EmptyMap
    /\ messages = {}
    /\ now = 0
    /\ ticks = 0
    /\ joinH = [s \in Sockets |-> NoJoin]
    /\ sendH = NoSend
    /\ last = Last("init", NoSocket, NoReq, 0, FALSE, <<>>, <<>>)
    /\ identities = EmptyTable
    /\ peerid_history = <<>>
    /\ idH = [r \in Requests |-> NoIdentity]
    /\ lastPeerReg = [v \in Values |-> NoSocket]
    /\ pushLog = {}

(***************************************************************************)
(* socket.io: connection, join, signal, typing, check-status, disconnect   *)
(***************************************************************************)
\* io.on('connection'): a new socket with a fresh id, the next unused one
Connect(s) ==
    /\ sockState[s] = "new"
    /\ \A t \in Sockets : t < s => sockState[t] /= "new"
    /\ sockState' = [sockState EXCEPT ![s] = "open"]
    /\ last' = Last("connection", s, NoReq, 0, FALSE, <<>>, <<>>)
    /\ UNCHANGED <<histVars, sockPeerId, sockMobileHash, presenceVars, messages,
                   clockVars, joinH, sendH, idVars>>

\* a registration that keeps an existing entry (first connection wins)
RegisterKeepFirst(map, id, s) ==
    IF Truthy(id) /\ ~MapHas(map, id) THEN MapSet(map, id, s) ELSE map

\* if (id) map.set(id, socket.id)
Register(map, id, s) == IF Truthy(id) THEN MapSet(map, id, s) ELSE map

\* if (id) socket.<field> = id
SetField(field, id, s) == IF Truthy(id) THEN [field EXCEPT ![s] = id] ELSE field

\* where the join handler goes after its hash part
AfterHashPart(peerId) == IF Truthy(peerId) THEN "peerQuery" ELSE "idle"

\* socket.on('join'), up to the first await: registers both identifiers
JoinStart(s, peerId, mobileHash) ==
    /\ sockState[s] = "open"
    /\ joinH[s].pc = "idle"
    /\ onlinePeers' = Register(onlinePeers, peerId, s)
    /\ sockPeerId' = SetField(sockPeerId, peerId, s)
    /\ onlineHashes' = Register(onlineHashes, mobileHash, s)
    /\ sockMobileHash' = SetField(sockMobileHash, mobileHash, s)
    /\ joinH' = [joinH EXCEPT ![s] =
                    IF Truthy(mobileHash) \/ Truthy(peerId)
                    THEN [pc |-> IF Truthy(mobileHash) THEN "hashQuery" ELSE "peerQuery",
                          peerId |-> peerId, mobileHash |-> mobileHash,
                          rows |-> <<>>, pushed |-> <<>>, failed |-> FALSE]
                    ELSE NoJoin]
    /\ last' = Last("join", s, Req(None, mobileHash, peerId, None), 0, FALSE, <<>>, <<>>)
    /\ UNCHANGED <<sockState, messages, clockVars, sendH, idVars>>

\* the payload of the join a socket's handler is working on
JoinReq(s) == Req(None, joinH[s].mobileHash, joinH[s].peerId, None)

\* SELECT * FROM messages WHERE to_hash = $1 executes (no ORDER BY)
JoinHashQuery(s) ==
    /\ joinH[s].pc = "hashQuery"
    /\ \E q \in ScanOrders(WhereToHash(messages, joinH[s].mobileHash)) :
          joinH' = [joinH EXCEPT ![s].pc = "hashEmit", ![s].rows = q]
    /\ last' = Last("join-hash-query", s, JoinReq(s), 0, FALSE, <<>>, <<>>)
    /\ UNCHANGED <<histVars, socketVars, presenceVars, messages, clockVars, sendH, idVars>>

\* the query fails: the catch block logs and the handler goes on
JoinHashQueryFail(s) ==
    /\ joinH[s].pc = "hashQuery"
    /\ joinH' = [joinH EXCEPT ![s] = IF AfterHashPart(joinH[s].peerId) = "idle"
                                      THEN NoJoin
                                      ELSE [@ EXCEPT !.pc = "peerQuery", !.failed = TRUE]]
    /\ last' = Last("join-hash-error", s, JoinReq(s), 0, FALSE, <<>>, <<>>)
    /\ UNCHANGED <<histVars, socketVars, presenceVars, messages, clockVars, sendH, idVars>>

RECURSIVE EmitRows(_, _)
\* for (const item of rows) socket.emit('relay-message', {id, data})
EmitRows(s, rows) ==
    IF rows = <<>> THEN <<>>
    ELSE Emit(s, "relay-message", Head(rows).id, Head(rows).data, None)
            \o EmitRows(s, Tail(rows))

\* the handler resumes with the rows and pushes them
JoinHashEmit(s) ==
    /\ joinH[s].pc = "hashEmit"
    /\ LET out == EmitRows(s, joinH[s].rows)
           nxt == AfterHashPart(joinH[s].peerId)
       IN  /\ joinH' = [joinH EXCEPT ![s] =
                           IF nxt = "idle" THEN NoJoin
                           ELSE [@ EXCEPT !.pc = nxt, !.rows = <<>>, !.pushed = out]]
           /\ last' = Last("join-hash-emit", s, JoinReq(s), 0, FALSE,
                           out, out)
    /\ UNCHANGED <<socketVars, presenceVars, messages, clockVars, sendH, idVars>>

\* SELECT * FROM messages WHERE to_peer = $1 AND to_hash IS NULL executes
JoinPeerQuery(s) ==
    /\ joinH[s].pc = "peerQuery"
    /\ \E q \in ScanOrders(WhereToPeerNoHash(messages, joinH[s].peerId)) :
          joinH' = [joinH EXCEPT ![s].pc = "peerEmit", ![s].rows = q]
    /\ last' = Last("join-peer-query", s, JoinReq(s), 0, FALSE, <<>>, <<>>)
    /\ UNCHANGED <<histVars, socketVars, presenceVars, messages, clockVars, sendH, idVars>>

JoinPeerQueryFail(s) ==
    /\ joinH[s].pc = "peerQuery"
    /\ joinH' = [joinH EXCEPT ![s] = NoJoin]
    /\ last' = Last("join-peer-error", s, JoinReq(s), 0, FALSE, <<>>, <<>>)
    /\ UNCHANGED <<histVars, socketVars, presenceVars, messages, clockVars, sendH, idVars>>

\* the handler resumes, pushes the legacy rows and ends; last.rows is
\* everything this join has pushed, last.emits what this step pushed
JoinPeerEmit(s) ==
    /\ joinH[s].pc = "peerEmit"
    /\ LET out == EmitRows(s, joinH[s].rows)
       IN  /\ joinH' = [joinH EXCEPT ![s] = NoJoin]
           /\ last' = Last("join-peer-emit", s, JoinReq(s), 0, FALSE,
                           joinH[s].pushed \o out, out)
    /\ UNCHANGED <<socketVars, presenceVars, messages, clockVars, sendH, idVars>>

\* a lookup that asks the hash map first
LookupHashFirst(to) ==
    IF MapGet(onlineHashes, to) /= NoSocket THEN MapGet(onlineHashes, to)
    ELSE MapGet(onlinePeers, to)

\* onlinePeers.get(to) || onlineHashes.get(to)
Lookup(to) ==
    IF MapGet(onlinePeers, to) /= NoSocket THEN MapGet(onlinePeers, to)
    ELSE MapGet(onlineHashes, to)

\* a status that asks the peer-id map only
IsOnlineAsPeer(target) == MapHas(onlinePeers, target)

\* onlinePeers.has(target) || onlineHashes.has(target)
IsOnline(target) == MapHas(onlinePeers, target) \/ MapHas(onlineHashes, target)

\* from: socket.peerId || socket.mobileHash
SenderId(s) == Or(sockPeerId[s], sockMobileHash[s])

\* a handler that sends the event back to the sender when the target is
\* not found
ForwardOrReturn(s, ev, to, data) ==
    /\ sockState[s] = "open"
    /\ LET targetSocketId == Lookup(to)
           out == IF targetSocketId /= NoSocket
                  THEN Emit(targetSocketId, ev, None, data, SenderId(s))
                  ELSE Emit(s, ev, None, data, SenderId(s))
       IN  last' = Last(ev, s, Req(None, None, to, data), 0, FALSE, <<>>, out)
    /\ UNCHANGED <<histVars, socketVars, presenceVars, messages, clockVars, joinH,
                   sendH, idVars>>

\* socket.on('signal') and socket.on('typing')
Forward(s, ev, to, data) ==
    /\ sockState[s] = "open"
    /\ LET targetSocketId == Lookup(to)
           out == IF targetSocketId /= NoSocket
                  THEN Emit(targetSocketId, ev, None, data, SenderId(s))
                  ELSE <<>>
       IN  last' = Last(ev, s, Req(None, None, to, data), 0, FALSE, <<>>, out)
    /\ UNCHANGED <<histVars, socketVars, presenceVars, messages, clockVars, joinH,
                   sendH, idVars>>

Signal(s, to, data) == Forward(s, "signal", to, data)

Typing(s, to, isTyping) == Forward(s, "typing", to, isTyping)

\* socket.on('check-status')
CheckStatus(s, target) ==
    /\ sockState[s] = "open"
    /\ last' = Last("check-status", s, Req(None, None, target, None), 0, IsOnline(target), <<>>, <<>>)
    /\ UNCHANGED <<histVars, socketVars, presenceVars, messages, clockVars, joinH,
                   sendH, idVars>>

\* if (socket.<field>) map.delete(socket.<field>)
Unregister(map, field, s) == IF Truthy(field[s]) THEN MapDelete(map, field[s]) ELSE map

\* socket.on('disconnect'); the socket object, with its peerId and
\* mobileHash fields, is dropped afterwards
Disconnect(s) ==
    /\ sockState[s] = "open"
    /\ sockState' = [sockState EXCEPT ![s] = "closed"]
    /\ onlinePeers' = Unregister(onlinePeers, sockPeerId, s)
    /\ onlineHashes' = Unregister(onlineHashes, sockMobileHash, s)
    /\ sockPeerId' = [sockPeerId EXCEPT ![s] = None]
    /\ sockMobileHash' = [sockMobileHash EXCEPT ![s] = None]
    /\ last' = Last("disconnect", s, NoReq, 0, FALSE, <<>>, <<>>)
    /\ UNCHANGED <<histVars, messages, clockVars, joinH, sendH, idVars>>

(***************************************************************************)
(* HTTP: /send, /inbox, cleanup job, /debug/flush                          *)
(***************************************************************************)
\* a validation that does not ask for a recipient
SendValidAnyRecipient(id, toHash, to, data) == Truthy(data) /\ Truthy(id)

\* if (!data || !id) ...; if (!toHash && !to) ...
SendValid(id, toHash, to, data) ==
    /\ Truthy(data) /\ Truthy(id)
    /\ (Truthy(toHash) \/ Truthy(to))

\* POST /send with a body that fails validation: 400
SendReject(id, toHash, to, data) ==
    /\ ~SendValid(id, toHash, to, data)
    /\ last' = Last("send", NoSocket, Req(id, toHash, to, data), 400, FALSE, <<>>, <<>>)
    /\ UNCHANGED <<histVars, socketVars, presenceVars, messages, clockVars, joinH,
                   sendH, idVars>>

\* POST /send up to the await: the INSERT is issued with Date.now()
SendStart(id, toHash, to, data) ==
    /\ sendH.pc = "idle"
    /\ SendValid(id, toHash, to, data)
    /\ sendH' = [pc |-> "insert", id |-> id, toHash |-> Or(toHash, None),
                 to |-> Or(to, None), data |-> data, ts |-> now]
    /\ last' = Last("send-start", NoSocket, Req(id, toHash, to, data), 0, FALSE, <<>>, <<>>)
    /\ UNCHANGED <<histVars, socketVars, presenceVars, messages, clockVars, joinH, idVars>>

SendReq == Req(sendH.id, sendH.toHash, sendH.to, sendH.data)

\* a handler that goes on to the delivery without having written the row
SendInsertSkipped ==
    /\ sendH.pc = "insert"
    /\ sendH' = [sendH EXCEPT !.pc = "deliver"]
    /\ last' = Last("send-insert", NoSocket, SendReq, 0, FALSE, <<>>, <<>>)
    /\ UNCHANGED <<histVars, socketVars, presenceVars, messages, clockVars, joinH, idVars>>

\* the INSERT ... ON CONFLICT (id) DO NOTHING executes
SendInsert ==
    /\ sendH.pc = "insert"
    /\ messages' = InsertMessage(messages,
                       Row(sendH.id, sendH.toHash, sendH.to, sendH.data, sendH.ts))
    /\ sendH' = [sendH EXCEPT !.pc = "deliver"]
    /\ last' = Last("send-insert", NoSocket, SendReq, 0, FALSE, <<>>, <<>>)
    /\ UNCHANGED <<histVars, socketVars, presenceVars, clockVars, joinH, idVars>>

\* the INSERT fails: 500 "Storage failed"
SendInsertFail ==
    /\ sendH.pc = "insert"
    /\ sendH' = NoSend
    /\ last' = Last("send", NoSocket, SendReq, 500, FALSE, <<>>, <<>>)
    /\ UNCHANGED <<histVars, socketVars, presenceVars, messages, clockVars, joinH, idVars>>

\* a lookup that asks the peer-id map only
LiveTargetPeerOnly(targetHash, targetPeer) ==
    IF targetPeer /= None THEN MapGet(onlinePeers, targetPeer) ELSE NoSocket

\* the socket the live delivery goes to: the hash's, else the peer id's
LiveTarget(targetHash, targetPeer) ==
    IF targetHash /= None /\ MapGet(onlineHashes, targetHash) /= NoSocket
    THEN MapGet(onlineHashes, targetHash)
    ELSE IF targetPeer /= None THEN MapGet(onlinePeers, targetPeer)
    ELSE NoSocket

\* the handler resumes: live delivery and the response; last.who is the
\* socket id the emit is addressed to, NoSocket when there is no emit
SendDeliver ==
    /\ sendH.pc = "deliver"
    /\ LET socketId == LiveTarget(sendH.toHash, sendH.to)
           delivered == socketId /= NoSocket
           out == IF delivered
                  THEN Emit(socketId, "relay-message", sendH.id, sendH.data, None)
                  ELSE <<>>
       IN  last' = Last("send", socketId, SendReq, 200, delivered, <<>>, out)
    /\ sendH' = NoSend
    /\ UNCHANGED <<socketVars, presenceVars, messages, clockVars, joinH, idVars>>

\* what SELECT ... ORDER BY timestamp ASC can return for the selected rows
Ordered(S) == {OrderByTimestamp(q) : q \in ScanOrders(S)}

\* GET /inbox/hash/:hash
InboxHash(hash) ==
    /\ \E rows \in Ordered(WhereToHash(messages, hash)) :
          last' = Last("inbox-hash", NoSocket, Req(None, hash, None, None), 200, FALSE,
                       rows, <<>>)
    /\ UNCHANGED <<histVars, socketVars, presenceVars, messages, clockVars, joinH,
                   sendH, idVars>>

\* GET /inbox/:peerId
InboxPeer(peerId) ==
    /\ \E rows \in Ordered(WhereToPeer(messages, peerId)) :
          last' = Last("inbox-peer", NoSocket, Req(None, None, peerId, None), 200, FALSE,
                       rows, <<>>)
    /\ UNCHANGED <<histVars, socketVars, presenceVars, messages, clockVars, joinH,
                   sendH, idVars>>

\* DELETE /inbox/:id
DeleteMessage(id) ==
    /\ messages' = DeleteById(messages, id)
    /\ last' = Last("delete", NoSocket, Req(id, None, None, None), 200, FALSE, <<>>, <<>>)
    /\ UNCHANGED <<histVars, socketVars, presenceVars, clockVars, joinH, sendH, idVars>>

\* a read or delete request whose query fails: 500 "DB Error"
QueryFail(op, req) ==
    /\ last' = Last(op, NoSocket, req, 500, FALSE, <<>>, <<>>)
    /\ UNCHANGED <<histVars, socketVars, presenceVars, messages, clockVars, joinH,
                   sendH, idVars>>

\* the hourly cleanup job, with the retention window it uses
SweepExpired(window) ==
    /\ messages' = DeleteOlderThan(messages, now - window)
    /\ last' = Last("cleanup", NoSocket, NoReq, 0, FALSE, <<>>, <<>>)
    /\ UNCHANGED <<histVars, socketVars, presenceVars, clockVars, joinH, sendH, idVars>>

Cleanup == SweepExpired(RetentionMs)

\* the cleanup query fails: logged, nothing else happens
CleanupFail ==
    /\ last' = Last("cleanup-error", NoSocket, NoReq, 0, FALSE, <<>>, <<>>)
    /\ UNCHANGED <<histVars, socketVars, presenceVars, messages, clockVars, joinH,
                   sendH, idVars>>

\* GET /debug/flush: DELETE FROM identities, messages, peerid_history, in
\* this order; n is the number of statements that succeed
Flush(n) ==
    /\ identities' = IF n >= 1 THEN EmptyTable ELSE identities
    /\ messages' = IF n >= 2 THEN {} ELSE messages
    /\ peerid_history' = IF n >= 3 THEN <<>> ELSE peerid_history
    /\ last' = Last("flush", NoSocket, NoReq, IF n = 3 THEN 200 ELSE 500, FALSE, <<>>, <<>>)
    /\ UNCHANGED <<histVars, socketVars, presenceVars, clockVars, joinH, sendH, idH>>

\* time passes
Tick(d) ==
    /\ ticks < MaxTicks
    /\ now' = now + d
    /\ ticks' = ticks + 1
    /\ last' = Last("tick", NoSocket, NoReq, 0, FALSE, <<>>, <<>>)
    /\ UNCHANGED <<histVars, socketVars, presenceVars, messages, joinH, sendH, idVars>>

(***************************************************************************)
(* Scheduling                                                              *)
(***************************************************************************)
\* no handler is waiting for the database
Quiet ==
    /\ sendH.pc = "idle"
    /\ \A s \in Sockets : joinH[s].pc = "idle"
    /\ \A r \in Requests : idH[r].pc \in {"new", "done"}

JoinSteps(s) ==
    \/ JoinHashQuery(s)
    \/ JoinHashQueryFail(s)
    \/ JoinHashEmit(s) /\ UNCHANGED histVars
    \/ JoinPeerQuery(s)
    \/ JoinPeerQueryFail(s)
    \/ JoinPeerEmit(s) /\ UNCHANGED histVars

SendSteps ==
    \/ SendInsert
    \/ SendInsertFail
    \/ SendDeliver /\ UNCHANGED histVars

(***************************************************************************)
(* Presence: connections that join and leave, one event at a time          *)
(***************************************************************************)
\* the peer ids the connections join with
PresencePeerIds == {"a", None}

PresenceNext ==
    \/ \E s \in Sockets : Quiet /\ Connect(s)
    \/ \E s \in Sockets, peerId \in PresencePeerIds, mobileHash \in ValueInputs :
          Quiet /\ JoinStart(s, peerId, mobileHash) /\ UNCHANGED histVars
    \/ \E s \in Sockets : JoinSteps(s)
    \/ \E s \in Sockets : Quiet /\ Disconnect(s)

SpecPresence == Init /\ [][PresenceNext]_vars

(***************************************************************************)
(* Claims about presence                                                   *)
(***************************************************************************)
\* the step just taken was the disconnect of a socket other than the one
\* that map entry x points to
StaleDisconnect(map, x) ==
    /\ last'.op = "disconnect"
    /\ MapHas(map, x)
    /\ map[x] /= last'.who

\* C1: a disconnect of connection A leaves every presence entry that points
\* to another connection B in place, still pointing to B (so a lookup,
\* check-status or Send of that identifier still resolves to B)
C1_StaleDisconnectDoesNotClobber ==
    [][\A x \in Values :
          /\ StaleDisconnect(onlinePeers, x)
                => MapGet(onlinePeers', x) = onlinePeers[x]
          /\ StaleDisconnect(onlineHashes, x)
                => MapGet(onlineHashes', x) = onlineHashes[x]]_vars

\* every entry of a presence map points to an open connection
OnlyLive(map) == \A x \in DOMAIN map : sockState[map[x]] = "open"

\* C4: in every reachable state each entry of the peer-id map and of the
\* hash map points to a connection that is currently open
C4_PresenceOnlyLive == OnlyLive(onlinePeers) /\ OnlyLive(onlineHashes)

\* what a join step does to one presence map: id is the identifier the
\* join carried for this map
JoinEffect(map, mapAfter, id) ==
    IF Truthy(id)
    THEN /\ MapGet(mapAfter, id) = last'.who
         /\ \A x \in Values \ {id} : MapGet(mapAfter, x) = MapGet(map, x)
    ELSE mapAfter = map

\* C5: a join registers its identifiers for the joining connection,
\* replacing whatever connection was registered before, touches no other
\* entry, and a join without a peer id (hash) leaves the peer-id (hash) map
\* unchanged; between joins an entry never moves to another connection
C5_LastConnectionWins ==
    [][/\ last'.op = "join"
            => /\ JoinEffect(onlinePeers, onlinePeers', last'.req.to)
               /\ JoinEffect(onlineHashes, onlineHashes', last'.req.toHash)
       /\ last'.op /= "join"
            => \A x \in Values :
                  /\ MapHas(onlinePeers', x) => MapGet(onlinePeers', x) = MapGet(onlinePeers, x)
                  /\ MapHas(onlineHashes', x) => MapGet(onlineHashes', x) = MapGet(onlineHashes, x)
      ]_vars

\* connection 2 has just taken over peer id "a" from connection 1, which is
\* still open, by a join that carried no hash, while hash "a" stays with 1
C5_Witness ==
    /\ last.op = "join" /\ last.who = 2
    /\ last.req.to = "a" /\ last.req.toHash = None
    /\ sockState[1] = "open" /\ sockPeerId[1] = "a"
    /\ MapGet(onlinePeers, "a") = 2
    /\ MapGet(onlineHashes, "a") = 1

(***************************************************************************)
(* The message store with one recipient connection, one event at a time    *)
(***************************************************************************)
StoreSockets == {1}
StoreValues == {"a"}
StoreValueInputs == StoreValues \cup {None}
StorePayloads == {"x"}
TickSteps == {1, RetentionMs}

StoreNext ==
    \/ \E s \in StoreSockets : Quiet /\ Connect(s)
    \/ \E s \in StoreSockets, peerId, mobileHash \in StoreValueInputs :
          Quiet /\ JoinStart(s, peerId, mobileHash) /\ UNCHANGED histVars
    \/ \E s \in StoreSockets : JoinSteps(s)
    \/ \E s \in StoreSockets : Quiet /\ Disconnect(s)
    \/ \E id \in MsgIds, toHash, to \in StoreValueInputs, data \in StorePayloads :
          Quiet /\ SendStart(id, toHash, to, data)
    \/ SendSteps
    \/ \E id \in MsgIds : Quiet /\ DeleteMessage(id)
    \/ \E id \in MsgIds : Quiet /\ QueryFail("delete", Req(id, None, None, None))
    \/ Quiet /\ Cleanup
    \/ Quiet /\ CleanupFail
    \/ \E n \in 0..3 : Quiet /\ Flush(n)
    \/ \E d \in TickSteps : Quiet /\ Tick(d)

SpecStore == Init /\ [][StoreNext]_vars

(***************************************************************************)
(* Claims about the message store                                          *)
(***************************************************************************)
Range(q) == {q[i] : i \in DOMAIN q}

\* row r is among the rows every inbox poll for its recipient returns
Polled(tbl, r) ==
    /\ r.to_hash /= None => \A rows \in Ordered(WhereToHash(tbl, r.to_hash)) : r \in Range(rows)
    /\ r.to_peer /= None => \A rows \in Ordered(WhereToPeer(tbl, r.to_peer)) : r \in Range(rows)

\* the step just taken may remove row r: an acknowledgement of its id, a
\* sweep that finds it older than the retention window, or a flush
MayRemove(r) ==
    \/ last'.op = "delete" /\ last'.req.id = r.id
    \/ last'.op = "cleanup" /\ r.timestamp < now - RetentionMs
    \/ last'.op = "flush"

\* C2: a stored message stays in the store, unchanged and returned by the
\* inbox poll for its recipient, across every step other than an Ack/Delete
\* of its id, a sweep that finds it older than 24 hours, or a flush
C2_StoreAndForwardPersistence ==
    [][\A r \in messages : MayRemove(r) \/ (r \in messages' /\ Polled(messages', r))]_vars

\* a join has just pushed a stored message, and the message is still stored
C2_Witness ==
    /\ last.op \in {"join-hash-emit", "join-peer-emit"}
    /\ last.emits /= <<>>
    /\ \E r \in messages : r.id = last.emits[1].id /\ last.emits[1].to = last.who

\* at most one row per id
UniqueIds(tbl) == \A r1, r2 \in tbl : r1.id = r2.id => r1 = r2

\* the id is stored
Stored(tbl, id) == \E r \in tbl : r.id = id

\* C6: the store holds at most one row per id; the INSERT of a Send leaves
\* the id stored, adds no row when the id was stored already, and once it
\* has executed the Send is answered with success
C6_IdempotentEnqueue ==
    /\ [](UniqueIds(messages))
    /\ [][/\ last'.op = "send-insert"
                => /\ Stored(messages', last'.req.id)
                   /\ (Stored(messages, last'.req.id) => messages' = messages)
          /\ sendH.pc = "deliver" => (last'.op = "send" /\ last'.status = 200)
         ]_vars

\* a Send of an id that was stored in an earlier tick has been answered with
\* success and the store still has the earlier row only
C6_Witness ==
    /\ last.op = "send" /\ last.status = 200
    /\ \E r \in messages : r.id = last.req.id /\ r.timestamp < now
    /\ Cardinality({r \in messages : r.id = last.req.id}) = 1

\* rows are in non-decreasing creation-time order
NonDecreasing(rows) ==
    \A i, j \in DOMAIN rows : i < j => rows[i].timestamp <= rows[j].timestamp

\* rows lists each row of the set S once, and nothing else
ListsExactly(rows, S) == Range(rows) = S /\ Len(rows) = Cardinality(S)

\* C7: an inbox poll by hash (by peer id) answers exactly the stored rows
\* whose to_hash (to_peer) is the polled value, in non-decreasing
\* creation-time order
C7_InboxPollOrdered ==
    /\ (last.op = "inbox-hash" /\ last.status = 200)
          => /\ ListsExactly(last.rows, {r \in messages : r.to_hash = last.req.toHash})
             /\ NonDecreasing(last.rows)
    /\ (last.op = "inbox-peer" /\ last.status = 200)
          => /\ ListsExactly(last.rows, {r \in messages : r.to_peer = last.req.to})
             /\ NonDecreasing(last.rows)

\* two messages with different creation times have just been returned by a
\* poll, the older one first
C7_Witness ==
    /\ last.op \in {"inbox-hash", "inbox-peer"}
    /\ last.status = 200
    /\ Len(last.rows) = 2
    /\ last.rows[1].timestamp < last.rows[2].timestamp

(***************************************************************************)
(* The inbox: sends, polls and acknowledgements for two recipients         *)
(***************************************************************************)
InboxNext ==
    \/ \E id \in MsgIds, toHash, to \in ValueInputs, data \in StorePayloads :
          Quiet /\ SendStart(id, toHash, to, data)
    \/ SendSteps
    \/ \E hash \in Values : Quiet /\ InboxHash(hash)
    \/ \E hash \in Values : Quiet /\ QueryFail("inbox-hash", Req(None, hash, None, None))
    \/ \E peerId \in Values : Quiet /\ InboxPeer(peerId)
    \/ \E peerId \in Values : Quiet /\ QueryFail("inbox-peer", Req(None, None, peerId, None))
    \/ \E id \in MsgIds : Quiet /\ DeleteMessage(id)
    \/ Quiet /\ Tick(1)

SpecInbox == Init /\ [][InboxNext]_vars

(***************************************************************************)
(* Delivery: two connections, one message id, one event at a time          *)
(***************************************************************************)
DeliveryIds == {"m1"}
\* the recipients messages are sent to
DeliveryTargets == {"a", None}

\* the join is recorded as the latest registration of its peer id
RecordJoin(s, peerId) ==
    /\ lastPeerReg' = IF Truthy(peerId) THEN [lastPeerReg EXCEPT ![peerId] = s]
                      ELSE lastPeerReg
    /\ pushLog' = pushLog

DeliveryNext ==
    \/ \E s \in Sockets : Quiet /\ Connect(s)
    \/ \E s \in Sockets, peerId, mobileHash \in ValueInputs :
          Quiet /\ JoinStart(s, peerId, mobileHash) /\ RecordJoin(s, peerId)
    \/ \E s \in Sockets : JoinSteps(s)
    \/ \E s \in Sockets : Quiet /\ Disconnect(s)
    \/ \E id \in DeliveryIds, toHash, to \in DeliveryTargets, data \in StorePayloads :
          Quiet /\ SendStart(id, toHash, to, data)
    \/ SendSteps
    \/ \E id \in DeliveryIds : Quiet /\ DeleteMessage(id)

SpecDelivery == Init /\ [][DeliveryNext]_vars

(***************************************************************************)
(* Claims about delivery                                                   *)
(***************************************************************************)
\* the number of events in emits that push message id to socket s
Pushes(emits, s, id) ==
    Cardinality({i \in DOMAIN emits :
                    emits[i].ev = "relay-message" /\ emits[i].to = s /\ emits[i].id = id})

\* the Send just answered was accepted and addressed to a hash only
SentToHashOnly ==
    /\ last.op = "send" /\ last.status = 200
    /\ Truthy(last.req.toHash) /\ ~Truthy(last.req.to)

\* the Send just answered was accepted and addressed to a peer id only
SentToPeerOnly ==
    /\ last.op = "send" /\ last.status = 200
    /\ Truthy(last.req.to) /\ ~Truthy(last.req.toHash)

\* C8: a Send to toHash = H while no connection is open (so H has none) is
\* stored and answered liveDelivered = false; the hash drain of a join with
\* H pushes each stored message for H to the joining connection exactly
\* once; after an Ack/Delete of an id no poll returns a message with that id
C8_OfflineSendThenConnectThenAck ==
    /\ (SentToHashOnly /\ \A s \in Sockets : sockState[s] /= "open")
          => (Stored(messages, last.req.id) /\ ~last.live)
    /\ last.op = "join-hash-emit"
          => \A r \in WhereToHash(messages, last.req.toHash) :
                Pushes(last.emits, last.who, r.id) = 1
    /\ (last.op = "delete" /\ last.status = 200)
          => \A h \in Values : \A rows \in Ordered(WhereToHash(messages, h)) :
                \A i \in DOMAIN rows : rows[i].id /= last.req.id

\* C9: when the connection that last joined with peer id P is open, a Send
\* to toPeerId = P is answered liveDelivered = true, is pushed to that
\* connection, and the row it stored for P is returned by the inbox poll
C9_LiveSendToOpenPeer ==
    (SentToPeerOnly /\ lastPeerReg[last.req.to] /= NoSocket
                    /\ sockState[lastPeerReg[last.req.to]] = "open")
        => /\ last.live
           /\ Pushes(last.emits, lastPeerReg[last.req.to], last.req.id) = 1
           /\ Stored(messages, last.req.id)
           /\ \A r \in messages : (r.id = last.req.id /\ r.to_peer = last.req.to)
                                     => Polled(messages, r)

(***************************************************************************)
(* HTTP: /identity, /directory                                             *)
(***************************************************************************)
\* if (!username || !blob) return 400
IdentityValid(username, blob) == Truthy(username) /\ Truthy(blob)

\* POST /identity with a body that fails validation: 400
IdentityReject(username, blob, peerId, displayName) ==
    /\ ~IdentityValid(username, blob)
    /\ last' = Last("identity", NoSocket,
                    [NoIdentity EXCEPT !.username = username, !.blob = blob,
                                       !.peerId = peerId, !.displayName = displayName],
                    400, FALSE, <<>>, <<>>)
    /\ UNCHANGED <<histVars, socketVars, presenceVars, messages, clockVars, joinH,
                   sendH, idVars>>

\* the stored peer id of a hash, None when there is no row or no peer id
StoredPeerId(tbl, username) == Existing(tbl, username).peer_id

\* POST /identity up to the first await: the SELECT is issued
IdentityStart(r, username, blob, peerId, displayName) ==
    /\ idH[r].pc = "new"
    /\ \A t \in Requests : t < r => idH[t].pc /= "new"
    /\ IdentityValid(username, blob)
    /\ idH' = [idH EXCEPT ![r] =
                  [NoIdentity EXCEPT !.pc = "select", !.username = username,
                                     !.blob = blob, !.peerId = peerId,
                                     !.displayName = displayName,
                                     !.old0 = StoredPeerId(identities, username),
                                     !.hist0 = Len(peerid_history)]]
    /\ last' = Last("identity-start", NoSocket, idH'[r], 0, FALSE, <<>>, <<>>)
    /\ UNCHANGED <<histVars, socketVars, presenceVars, messages, clockVars, joinH,
                   sendH, identities, peerid_history>>

\* a change test that does not compare the two peer ids
IsPeerIdChangeUncompared(oldPeerId, newPeerId) ==
    Truthy(newPeerId) /\ Truthy(oldPeerId)

\* a PEERID_CHANGE row is due: if (oldPeerId && oldPeerId !== newPeerId)
IsPeerIdChange(oldPeerId, newPeerId) ==
    Truthy(newPeerId) /\ Truthy(oldPeerId) /\ oldPeerId /= newPeerId

\* a first-registration test that does not ask for a supplied peer id
IsFirstRegistrationUnsupplied(oldPeerId, newPeerId) == ~Truthy(oldPeerId)

\* a FIRST_REGISTRATION row is due: else if (!oldPeerId)
IsFirstRegistration(oldPeerId, newPeerId) ==
    Truthy(newPeerId) /\ ~IsPeerIdChange(oldPeerId, newPeerId) /\ ~Truthy(oldPeerId)

\* the SELECT executes; the handler resumes and decides whether to log
IdentitySelect(r) ==
    /\ idH[r].pc = "select"
    /\ LET existing == Existing(identities, idH[r].username)
           oldPeerId == IF existing.found THEN existing.peer_id ELSE None
           newPeerId == Or(idH[r].peerId, None)
       IN  idH' = [idH EXCEPT ![r].existing = existing,
                              ![r].pc = IF \/ IsPeerIdChange(oldPeerId, newPeerId)
                                           \/ IsFirstRegistration(oldPeerId, newPeerId)
                                        THEN "log" ELSE "save"]
    /\ last' = Last("identity-select", NoSocket, idH'[r], 0, FALSE, <<>>, <<>>)
    /\ UNCHANGED <<histVars, socketVars, presenceVars, messages, clockVars, joinH,
                   sendH, identities, peerid_history>>

\* a query of the handler fails: 500 "Storage failed"
IdentityFail(r, pc) ==
    /\ idH[r].pc = pc
    /\ idH' = [idH EXCEPT ![r] = [NoIdentity EXCEPT !.pc = "done"]]
    /\ last' = Last("identity", NoSocket, idH[r], 500, FALSE, <<>>, <<>>)
    /\ UNCHANGED <<histVars, socketVars, presenceVars, messages, clockVars, joinH,
                   sendH, identities, peerid_history>>

IdentitySelectFail(r) == IdentityFail(r, "select")

\* the INSERT INTO peerid_history executes
IdentityLog(r) ==
    /\ idH[r].pc = "log"
    /\ LET oldPeerId == IF idH[r].existing.found THEN idH[r].existing.peer_id ELSE None
           newPeerId == Or(idH[r].peerId, None)
       IN  peerid_history' = Append(peerid_history,
               HistoryRow(idH[r].username, Or(idH[r].displayName, None),
                          IF IsPeerIdChange(oldPeerId, newPeerId) THEN oldPeerId ELSE None,
                          newPeerId,
                          IF IsPeerIdChange(oldPeerId, newPeerId)
                          THEN "PEERID_CHANGE" ELSE "FIRST_REGISTRATION",
                          now))
    /\ idH' = [idH EXCEPT ![r].pc = "save"]
    /\ last' = Last("identity-log", NoSocket, idH'[r], 0, FALSE, <<>>, <<>>)
    /\ UNCHANGED <<histVars, socketVars, presenceVars, messages, clockVars, joinH,
                   sendH, identities>>

IdentityLogFail(r) == IdentityFail(r, "log")

\* const finalPeerId = newPeerId || oldPeerId || null
FinalPeerId(h) ==
    Or(Or(h.peerId, None), Or(IF h.existing.found THEN h.existing.peer_id ELSE None, None))

\* const finalDisplayName = displayName || (existing ? existing.display_name : null)
FinalDisplayName(h) ==
    Or(h.displayName, IF h.existing.found THEN h.existing.display_name ELSE None)

\* INSERT INTO identities ... ON CONFLICT (username) DO UPDATE SET ...
UpsertIdentity(tbl, username, row) ==
    [u \in DOMAIN tbl \cup {username} |-> IF u = username THEN row ELSE tbl[u]]

\* the body of the 200 answer: res.json({ success: true })
IdentityResponse == [success |-> TRUE]

\* what a client reads in a boolean field of an answer: absent reads as false
Reported(res, field) == field \in DOMAIN res /\ res[field]

\* the upsert executes and the handler answers { success: true }; last.live
\* is the peerIdChanged the client reads in the answer
IdentitySave(r) ==
    /\ idH[r].pc = "save"
    /\ identities' = UpsertIdentity(identities, idH[r].username,
                        IdentityRow(idH[r].blob, FinalPeerId(idH[r]),
                                    FinalDisplayName(idH[r]), now))
    /\ idH' = [idH EXCEPT ![r] = [NoIdentity EXCEPT !.pc = "done"]]
    /\ last' = Last("identity", NoSocket, idH[r], 200,
                    Reported(IdentityResponse, "peerIdChanged"), <<>>, <<>>)
    /\ UNCHANGED <<histVars, socketVars, presenceVars, messages, clockVars, joinH,
                   sendH, peerid_history>>

IdentitySaveFail(r) == IdentityFail(r, "save")

IdentitySteps(r) ==
    \/ IdentitySelect(r)
    \/ IdentitySelectFail(r)
    \/ IdentityLog(r)
    \/ IdentityLogFail(r)
    \/ IdentitySave(r)
    \/ IdentitySaveFail(r)

\* an answer that says found only for a row that has a peer id
DirectoryResponseNeedsPeerId(tbl, hashKey) ==
    IF hashKey \in DOMAIN tbl /\ Truthy(tbl[hashKey].peer_id)
    THEN [hashKey |-> hashKey, found |-> TRUE, peerId |-> tbl[hashKey].peer_id,
          displayName |-> tbl[hashKey].display_name]
    ELSE [hashKey |-> hashKey, found |-> FALSE, peerId |-> None, displayName |-> None]

\* the answer of the lookup, with the key it was asked for: { found: true,
\* peerId, displayName } if (rows[0]), else { found: false }
DirectoryResponse(tbl, hashKey) ==
    IF hashKey \in DOMAIN tbl
    THEN [hashKey |-> hashKey, found |-> TRUE, peerId |-> tbl[hashKey].peer_id,
          displayName |-> tbl[hashKey].display_name]
    ELSE [hashKey |-> hashKey, found |-> FALSE, peerId |-> None, displayName |-> None]

\* the answer of the recovery: { found: true, blob, peerId, displayName }
\* if (rows[0]), else { found: false }
RecoverResponse(tbl, hashKey) ==
    IF hashKey \in DOMAIN tbl
    THEN [hashKey |-> hashKey, found |-> TRUE, blob |-> tbl[hashKey].encrypted_blob,
          peerId |-> tbl[hashKey].peer_id, displayName |-> tbl[hashKey].display_name]
    ELSE [hashKey |-> hashKey, found |-> FALSE, blob |-> None, peerId |-> None,
          displayName |-> None]

\* POST /identity/recover with a hashKey
Recover(hashKey) ==
    /\ Truthy(hashKey)
    /\ last' = Last("recover", NoSocket, RecoverResponse(identities, hashKey), 200,
                    RecoverResponse(identities, hashKey).found, <<>>, <<>>)
    /\ UNCHANGED <<histVars, socketVars, presenceVars, messages, clockVars, joinH,
                   sendH, idVars>>

\* GET /directory/:hashKey
Directory(hashKey) ==
    /\ last' = Last("directory", NoSocket, DirectoryResponse(identities, hashKey), 200,
                    DirectoryResponse(identities, hashKey).found, <<>>, <<>>)
    /\ UNCHANGED <<histVars, socketVars, presenceVars, messages, clockVars, joinH,
                   sendH, idVars>>

(***************************************************************************)
(* The identity directory, one request at a time                           *)
(***************************************************************************)
Usernames == {"h"}
PeerIdInputs == Values \cup {None}
DisplayNames == {"n", None}
Blobs == {"x", "y"}
\* the keys looked up: the hash that is upserted and one that never is
DirectoryKeys == Usernames \cup {"g"}

IdentitySeqNext ==
    \/ \E r \in Requests, username \in Usernames, blob \in Blobs,
          peerId \in PeerIdInputs, displayName \in DisplayNames :
          Quiet /\ IdentityStart(r, username, blob, peerId, displayName)
    \/ \E r \in Requests : IdentitySteps(r)
    \/ \E hashKey \in DirectoryKeys : Quiet /\ Directory(hashKey)
    \/ \E hashKey \in DirectoryKeys :
          Quiet /\ QueryFail("directory", DirectoryResponse(EmptyTable, hashKey))
    \/ \E n \in 0..3 : Quiet /\ Flush(n)

SpecIdentitySeq == Init /\ [][IdentitySeqNext]_vars

(***************************************************************************)
(* The identity directory with requests that overlap                       *)
(***************************************************************************)
RaceBlobs == {"x"}
RaceNames == {None}

IdentityNext ==
    \/ \E r \in Requests, username \in Usernames, blob \in RaceBlobs,
          peerId \in PeerIdInputs, displayName \in RaceNames :
          IdentityStart(r, username, blob, peerId, displayName)
    \/ \E r \in Requests : IdentitySteps(r)

SpecIdentity == Init /\ [][IdentityNext]_vars

(***************************************************************************)
(* Claims about the identity directory                                     *)
(***************************************************************************)
RECURSIVE HistoryOf(_, _)
\* the rows of a history for one hash, in sequence order
HistoryOf(hist, username) ==
    IF hist = <<>> THEN <<>>
    ELSE (IF Head(hist).username_hash = username THEN <<Head(hist)>> ELSE <<>>)
            \o HistoryOf(Tail(hist), username)

\* at most one row has no old peer id, and each later row starts from the
\* peer id the row before it ended with
IsChain(h) ==
    /\ Cardinality({i \in DOMAIN h : h[i].old_peer_id = None}) <= 1
    /\ \A i \in DOMAIN h : i > 1 => h[i].old_peer_id = h[i - 1].new_peer_id

\* C3: whatever the interleaving of upserts for one hash, the history rows
\* of that hash form a chain in sequence order, and the newest row ends
\* with the stored peer id once no upsert is running
C3_HistoryIsLinearizableChain ==
    \A u \in Usernames :
        LET h == HistoryOf(peerid_history, u)
        IN  /\ IsChain(h)
            /\ (Quiet /\ Truthy(StoredPeerId(identities, u)))
                  => (h /= <<>> /\ h[Len(h)].new_peer_id = StoredPeerId(identities, u))

\* the upsert just answered was accepted and supplied a peer id
UpsertedWithPeerId ==
    last.op = "identity" /\ last.status = 200 /\ Truthy(last.req.peerId)

\* h is h0 or h0 with rows added at its end
Extends(h, h0) == Len(h) >= Len(h0) /\ SubSeq(h, 1, Len(h0)) = h0

\* C10: an accepted upsert that supplies peer id P2 for a hash whose stored
\* peer id is P1 /= P2 appends exactly one history row, with old_peer_id = P1
\* and new_peer_id = P2; one that supplies the stored peer id appends none
C10_PeerIdChangeLoggedOnce ==
    /\ [](UpsertedWithPeerId /\ Truthy(last.req.old0) /\ last.req.old0 /= last.req.peerId
            => /\ Len(peerid_history) = last.req.hist0 + 1
               /\ LET row == peerid_history[Len(peerid_history)]
                  IN  /\ row.username_hash = last.req.username
                      /\ row.old_peer_id = last.req.old0
                      /\ row.new_peer_id = last.req.peerId)
    /\ [](UpsertedWithPeerId /\ last.req.old0 = last.req.peerId
            => Len(peerid_history) = last.req.hist0)
    /\ [][last'.op /= "flush" => Extends(peerid_history', peerid_history)]_vars

\* an upsert with the stored peer id "b" has been accepted after the peer id
\* went from "a" to "b", and the history still ends with that one change
C10_Witness ==
    /\ UpsertedWithPeerId
    /\ last.req.old0 = "b" /\ last.req.peerId = "b"
    /\ Len(peerid_history) = 2
    /\ peerid_history[2].old_peer_id = "a" /\ peerid_history[2].new_peer_id = "b"

(***************************************************************************)
(* Claims about one upsert at a time                                       *)
(***************************************************************************)
\* the upsert just answered was accepted, and the hash had no row when it ran
FirstEverUpsert ==
    last.op = "identity" /\ last.status = 200 /\ ~last.req.existing.found

\* C11: an accepted upsert for a hash that has no row yet appends exactly one
\* history row when it supplies a peer id P, tagged FIRST_REGISTRATION with
\* no old peer id and new_peer_id = P, and appends no row when it supplies
\* no peer id
C11_FirstRegistrationLoggedOnce ==
    FirstEverUpsert =>
        IF Truthy(last.req.peerId)
        THEN /\ Len(peerid_history) = last.req.hist0 + 1
             /\ LET row == peerid_history[Len(peerid_history)]
                IN  /\ row.username_hash = last.req.username
                    /\ row.source = "FIRST_REGISTRATION"
                    /\ row.old_peer_id = None
                    /\ row.new_peer_id = last.req.peerId
        ELSE Len(peerid_history) = last.req.hist0

\* a first upsert with peer id "a" has been accepted and logged
C11_Witness ==
    /\ FirstEverUpsert
    /\ last.req.peerId = "a"
    /\ Len(peerid_history) = 1
    /\ peerid_history[1].source = "FIRST_REGISTRATION"
    /\ StoredPeerId(identities, last.req.username) = "a"

\* C12: an accepted upsert answers peerIdChanged = true exactly when the
\* hash had a row with a stored peer id and the supplied peer id is present
\* and differs from it
C12_PeerIdChangedReported ==
    (last.op = "identity" /\ last.status = 200) =>
        (last.live <=> /\ last.req.existing.found
                       /\ IsPeerIdChange(last.req.existing.peer_id, last.req.peerId))

\* C13: an upsert that ends in a storage failure has changed neither the
\* identity row nor the history of its hash, and after any answered upsert
\* the newest history row of the hash, if there is one, announces the peer
\* id the identity row carries
C13_UpsertAtomicWithHistory ==
    /\ [][(last'.op = "identity" /\ last'.status = 500)
            => /\ identities' = identities
               /\ Len(peerid_history') = last'.req.hist0]_vars
    /\ [](last.op = "identity" =>
            LET h == HistoryOf(peerid_history, last.req.username)
            IN  h /= <<>> =>
                  h[Len(h)].new_peer_id = StoredPeerId(identities, last.req.username))

\* C14: an accepted upsert replaces the blob of its hash by the supplied one;
\* when it supplies no peer id the stored peer id is the same before and
\* after it, when it supplies no display name the stored display name is the
\* same before and after it, and a stored peer id never becomes absent
C14_OmittedFieldsPreserved ==
    [][(last'.op = "identity" /\ last'.status = 200) =>
         LET u == last'.req.username
             before == Existing(identities, u)
             after == Existing(identities', u)
         IN  /\ after.found /\ identities'[u].encrypted_blob = last'.req.blob
             /\ ~Truthy(last'.req.peerId) => after.peer_id = before.peer_id
             /\ ~Truthy(last'.req.displayName) => after.display_name = before.display_name
             /\ Truthy(before.peer_id) => Truthy(after.peer_id)]_vars

\* C15: a lookup answers found = true exactly for a hash that has a row, with
\* the stored peer id and display name; a hash gets its row only by an
\* accepted upsert for it, every accepted upsert leaves a row, with or
\* without a peer id, and only a flush removes a row
C15_DirectoryLookup ==
    /\ []((last.op = "directory" /\ last.status = 200) =>
            LET k == last.req.hashKey
            IN  /\ last.req.found <=> k \in DOMAIN identities
                /\ last.req.found => /\ last.req.peerId = identities[k].peer_id
                                     /\ last.req.displayName = identities[k].display_name)
    /\ [][/\ \A k \in DOMAIN identities' \ DOMAIN identities :
                last'.op = "identity" /\ last'.status = 200 /\ last'.req.username = k
          /\ (last'.op = "identity" /\ last'.status = 200)
                => last'.req.username \in DOMAIN identities'
          /\ (DOMAIN identities \ DOMAIN identities' /= {}) => last'.op = "flush"]_vars

\* a lookup has answered found = true with no peer id, for a hash that was
\* upserted without one
C15_Witness ==
    /\ last.op = "directory" /\ last.status = 200
    /\ last.req.hashKey = "h" /\ last.req.found /\ last.req.peerId = None
    /\ "h" \in DOMAIN identities

(***************************************************************************)
(* The cleanup job under other retention windows                           *)
(***************************************************************************)
\* the retention windows the sweep is run with
SweepWindows == {0, 1, RetentionMs}

SweepNext ==
    \/ \E id \in MsgIds, toHash, to \in StoreValueInputs, data \in StorePayloads :
          Quiet /\ SendStart(id, toHash, to, data)
    \/ SendSteps
    \/ \E window \in SweepWindows : Quiet /\ SweepExpired(window)
    \/ Quiet /\ CleanupFail
    \/ Quiet /\ Tick(1)

SpecSweep == Init /\ [][SweepNext]_vars

C17_StoreBeforeDelivery ==
    [][/\ (last'.op = "send" /\ (last'.emits /= <<>> \/ last'.live))
            => /\ sendH.pc = "deliver"
               /\ Stored(messages, last'.req.id)
               /\ Stored(messages', last'.req.id)
       /\ (last'.op = "send" /\ last'.status = 500)
            => /\ sendH.pc = "insert" /\ messages' = messages
               /\ last'.emits = <<>> /\ ~last'.live
               /\ UNCHANGED presenceVars
       /\ (sendH.pc = "insert" /\ sendH'.pc = "deliver")
            => Stored(messages', sendH.id)]_vars

\* a Send has pushed its message to an open connection and the message is
\* in the store
C17_Witness ==
    /\ last.op = "send" /\ last.status = 200 /\ last.live
    /\ Len(last.emits) = 1 /\ last.emits[1].id = last.req.id
    /\ Stored(messages, last.req.id)

ChannelNext ==
    \/ \E s \in StoreSockets : Quiet /\ Connect(s)
    \/ \E s \in StoreSockets, peerId, mobileHash \in StoreValueInputs :
          Quiet /\ JoinStart(s, peerId, mobileHash) /\ UNCHANGED histVars
    \/ \E s \in StoreSockets : JoinSteps(s)
    \/ \E s \in StoreSockets : Quiet /\ Disconnect(s)
    \/ \E id \in MsgIds, toHash, to \in StoreValueInputs, data \in StorePayloads :
          Quiet /\ SendStart(id, toHash, to, data)
    \/ SendSteps
    \/ \E hash \in StoreValues : Quiet /\ InboxHash(hash)
    \/ \E peerId \in StoreValues : Quiet /\ InboxPeer(peerId)
    \/ \E id \in MsgIds : Quiet /\ DeleteMessage(id)

SpecChannels == Init /\ [][ChannelNext]_vars

\* the message ids in a sequence of rows or of pushed events
IdsOf(q) == {q[i].id : i \in DOMAIN q}

\* the ids the event just handled returned or pushed under a hash lookup
UnderHashLookup ==
    IF last.op = "inbox-hash" THEN IdsOf(last.rows)
    ELSE IF last.op = "join-hash-emit" THEN IdsOf(last.emits)
    ELSE {}

\* the ids the event just handled returned or pushed under a peer-id lookup
UnderPeerLookup ==
    IF last.op = "inbox-peer" THEN IdsOf(last.rows)
    ELSE IF last.op = "join-peer-emit" THEN IdsOf(last.emits)
    ELSE {}

\* C19: a stored message with a peer-id destination only is not returned by
\* a hash poll and not pushed by the hash drain of a join, and a stored
\* message with a hash destination only is not returned by a peer-id poll
\* and not pushed by the peer-id drain, also when hash and peer id are the
\* same string
C19_ChannelIndependence ==
    \A r \in messages :
        /\ (r.to_hash = None /\ r.to_peer /= None) => r.id \notin UnderHashLookup
        /\ (r.to_peer = None /\ r.to_hash /= None) => r.id \notin UnderPeerLookup

\* the hash drain of a join with hash "a" and peer id "a" has pushed a
\* message for hash "a" while a message for peer id "a" only is stored
C19_Witness ==
    /\ last.op = "join-hash-emit"
    /\ last.req.toHash = "a" /\ last.req.to = "a"
    /\ last.emits /= <<>>
    /\ \E r \in messages : r.to_hash = None /\ r.to_peer = "a"

(***************************************************************************)
(* Requests with missing fields                                            *)
(***************************************************************************)
\* request bodies with fields that are missing (None) or empty
BodyIds == {"m1", None}
BodyData == {"x", ""}
BodyHashes == {"a", "", None}
BodyPeers == {"a", None}
BodyUsernames == {"h", None}
BodyBlobs == {"x", ""}

ValidationNext ==
    \/ \E s \in StoreSockets : Quiet /\ Connect(s)
    \/ \E s \in StoreSockets, peerId, mobileHash \in StoreValueInputs :
          Quiet /\ JoinStart(s, peerId, mobileHash) /\ UNCHANGED histVars
    \/ \E s \in StoreSockets : JoinSteps(s)
    \/ \E id \in BodyIds, toHash \in BodyHashes, to \in BodyPeers, data \in BodyData :
          Quiet /\ SendStart(id, toHash, to, data)
    \/ \E id \in BodyIds, toHash \in BodyHashes, to \in BodyPeers, data \in BodyData :
          Quiet /\ SendReject(id, toHash, to, data)
    \/ SendSteps
    \/ \E r \in Requests, username \in BodyUsernames, blob \in BodyBlobs,
          peerId \in BodyPeers :
          Quiet /\ IdentityStart(r, username, blob, peerId, None)
    \/ \E username \in BodyUsernames, blob \in BodyBlobs, peerId \in BodyPeers :
          Quiet /\ IdentityReject(username, blob, peerId, None)
    \/ \E r \in Requests : IdentitySteps(r)

SpecValidation == Init /\ [][ValidationNext]_vars

\* a Send body lacks id or payload, or both recipients
SendBodyIncomplete(req) ==
    \/ ~Truthy(req.id) \/ ~Truthy(req.data)
    \/ (~Truthy(req.toHash) /\ ~Truthy(req.to))

\* an Identity-upsert body lacks hash or blob
IdentityBodyIncomplete(req) == ~Truthy(req.username) \/ ~Truthy(req.blob)

\* C20: a Send lacking id or payload, or lacking both recipients, and an
\* Identity-upsert lacking hash or blob, are answered 400 and leave the
\* store, the identity directory, the history and both presence maps
\* unchanged with no push emitted; every stored message has a recipient
\* hash or a recipient peer id
C20_ValidationFailuresChangeNothing ==
    /\ [][/\ (last'.op \in {"send", "send-start"} /\ SendBodyIncomplete(last'.req))
               => last'.op = "send" /\ last'.status = 400
          /\ (last'.op \in {"identity", "identity-start"}
                 /\ IdentityBodyIncomplete(last'.req))
               => last'.op = "identity" /\ last'.status = 400
          /\ last'.status = 400
               => /\ UNCHANGED <<messages, identities, peerid_history, presenceVars>>
                  /\ last'.emits = <<>>]_vars
    /\ [](\A r \in messages : r.to_hash /= None \/ r.to_peer /= None)

\* a Send with no recipient has been rejected while a message is stored and
\* a connection is registered
C20_Witness ==
    /\ last.op = "send" /\ last.status = 400
    /\ Truthy(last.req.id) /\ Truthy(last.req.data)
    /\ messages /= {} /\ DOMAIN onlineHashes /= {}
    /\ DOMAIN identities /= {}

(***************************************************************************)
(* Claims about Ack/Delete                                                 *)
(***************************************************************************)
\* C21: an answered Ack/Delete of an id leaves exactly the rows with another
\* id, so it removes no other message, it leaves the store as it was when
\* the id was not stored, and a second delete of the same id finds nothing
\* to remove
C21_DeleteIdempotent ==
    [][(last'.op = "delete" /\ last'.status = 200) =>
         LET id == last'.req.id
         IN  /\ \A r \in messages : r.id /= id => r \in messages'
             /\ messages' \subseteq messages
             /\ ~Stored(messages', id)
             /\ ~Stored(messages, id) => messages' = messages]_vars

\* a delete has been answered for an id that is not stored, and the message
\* with the other id is still stored
C21_Witness ==
    /\ last.op = "delete" /\ last.status = 200
    /\ ~Stored(messages, last.req.id)
    /\ messages /= {}

(***************************************************************************)
(* Every kind of request around one connection                             *)
(***************************************************************************)
FrameIds == {"m1"}
FrameTargets == {"a", "b"}

FrameNext ==
    \/ \E s \in StoreSockets : Quiet /\ Connect(s)
    \/ \E s \in StoreSockets, peerId, mobileHash \in StoreValueInputs :
          Quiet /\ JoinStart(s, peerId, mobileHash) /\ UNCHANGED histVars
    \/ \E s \in StoreSockets : JoinSteps(s)
    \/ \E s \in StoreSockets : Quiet /\ Disconnect(s)
    \/ \E id \in FrameIds, toHash, to \in StoreValueInputs, data \in StorePayloads :
          Quiet /\ SendStart(id, toHash, to, data)
    \/ SendSteps
    \/ \E hash \in StoreValues : Quiet /\ InboxHash(hash)
    \/ \E peerId \in StoreValues : Quiet /\ InboxPeer(peerId)
    \/ \E id \in FrameIds : Quiet /\ DeleteMessage(id)
    \/ Quiet /\ Cleanup
    \/ \E r \in Requests, username \in Usernames, blob \in RaceBlobs,
          peerId \in StoreValueInputs :
          Quiet /\ IdentityStart(r, username, blob, peerId, None)
    \/ \E r \in Requests : IdentitySteps(r)
    \/ \E hashKey \in Usernames : Quiet /\ Recover(hashKey)
    \/ \E hashKey \in Usernames : Quiet /\ Directory(hashKey)
    \/ \E s \in StoreSockets, to \in FrameTargets, data \in StorePayloads :
          Quiet /\ Signal(s, to, data)
    \/ \E s \in StoreSockets, to \in FrameTargets, isTyping \in BOOLEAN :
          Quiet /\ Typing(s, to, isTyping)
    \/ \E s \in StoreSockets, target \in FrameTargets : Quiet /\ CheckStatus(s, target)

SpecFrame == Init /\ [][FrameNext]_vars

\* the events that connect or disconnect: a join and a disconnect
PresenceEvents == {"join", "disconnect"}

\* C22: every step other than the registration of a join and a disconnect
\* leaves both presence maps unchanged; check-status answers isOnline = true
\* exactly when the target is a key of the peer-id map or of the hash map,
\* and changes nothing
C22_PresenceOnlyByConnectDisconnect ==
    /\ [][last'.op \notin PresenceEvents => UNCHANGED presenceVars]_vars
    /\ [][last'.op = "check-status" =>
            /\ last'.live <=> \/ last'.req.to \in DOMAIN onlinePeers
                              \/ last'.req.to \in DOMAIN onlineHashes
            /\ last'.emits = <<>>
            /\ UNCHANGED <<presenceVars, socketVars, messages, identities,
                           peerid_history>>]_vars

\* check-status has answered isOnline = true for a value that is registered
\* as a hash only
C22_Witness ==
    /\ last.op = "check-status" /\ last.live
    /\ last.req.to \in DOMAIN onlineHashes
    /\ last.req.to \notin DOMAIN onlinePeers
    /\ messages /= {} /\ DOMAIN identities /= {}

(***************************************************************************)
(* Claims about the drains of a join                                       *)
(***************************************************************************)
\* C23: when a join that carries peer id P ends and none of its queries has
\* failed, every stored message with to_peer = P is among the messages the
\* join has pushed to its connection, with or without a recipient hash
C23_JoinDrainsAllForPeer ==
    [][(last'.op = "join-peer-emit" /\ ~joinH[last'.who].failed) =>
         \A r \in messages :
            r.to_peer = last'.req.to => Pushes(last'.rows, last'.who, r.id) >= 1]_vars

\* the creation time of the stored message with this id
CreatedAt(id) == (CHOOSE r \in messages : r.id = id).timestamp

\* C24: the messages a drain of a join pushes to the connection are emitted
\* in ascending creation-time order, in the hash drain and in the peer-id
\* drain
C24_JoinDrainFifo ==
    last.op \in {"join-hash-emit", "join-peer-emit"} =>
        \A i, j \in DOMAIN last.emits :
            i < j => CreatedAt(last.emits[i].id) <= CreatedAt(last.emits[j].id)

(***************************************************************************)
(* Signaling between two connections                                       *)
(***************************************************************************)
SignalSockets == {1, 2}
SignalData == {"x"}

SignalNext ==
    \/ \E s \in SignalSockets : Quiet /\ Connect(s)
    \/ \E s \in SignalSockets, peerId, mobileHash \in ValueInputs :
          Quiet /\ JoinStart(s, peerId, mobileHash) /\ UNCHANGED histVars
    \/ \E s \in SignalSockets : JoinSteps(s)
    \/ \E s \in SignalSockets : Quiet /\ Disconnect(s)
    \/ \E s \in SignalSockets, to \in Values, data \in SignalData :
          Quiet /\ Signal(s, to, data)
    \/ \E s \in SignalSockets, to \in Values, isTyping \in BOOLEAN :
          Quiet /\ Typing(s, to, isTyping)

SpecSignal == Init /\ [][SignalNext]_vars

\* the event just handled is a signal or typing event
Signalled == last.op \in {"signal", "typing"}

\* C25: a signal or typing event that is forwarded reaches one connection,
\* as an event of the same kind with the payload unchanged, tagged with the
\* sender's hash when the sender has registered a hash, and with the
\* sender's peer id otherwise
C25_ForwardTaggedWithSenderHash ==
    (Signalled /\ last.emits /= <<>>) =>
        /\ Len(last.emits) = 1
        /\ last.emits[1].ev = last.op
        /\ last.emits[1].data = last.req.data
        /\ last.emits[1].from = IF Truthy(sockMobileHash[last.who])
                                THEN sockMobileHash[last.who]
                                ELSE sockPeerId[last.who]

\* C26: a signal or typing event goes to the connection the peer-id map
\* gives for its target when the target is a key of that map, and to the
\* connection the hash map gives only when it is not; it goes to no other
\* connection, and it reaches the connection it goes to when that one is open
C26_PeerMapBeforeHashMap ==
    [][last'.op \in {"signal", "typing"} =>
         LET to == last'.req.to
             target == IF to \in DOMAIN onlinePeers THEN onlinePeers[to]
                       ELSE IF to \in DOMAIN onlineHashes THEN onlineHashes[to]
                       ELSE NoSocket
         IN  /\ \A i \in DOMAIN last'.emits : last'.emits[i].to = target
             /\ (target /= NoSocket /\ sockState[target] = "open")
                   => Len(last'.emits) = 1]_vars

\* a value is registered as a peer id by one open connection and as a hash
\* by another, and an event for it has been forwarded to the first only
C26_Witness ==
    /\ Signalled
    /\ last.req.to \in DOMAIN onlinePeers /\ last.req.to \in DOMAIN onlineHashes
    /\ onlinePeers[last.req.to] /= onlineHashes[last.req.to]
    /\ sockState[onlinePeers[last.req.to]] = "open"
    /\ sockState[onlineHashes[last.req.to]] = "open"
    /\ Len(last.emits) = 1
    /\ last.emits[1].to = onlinePeers[last.req.to]

\* C27: a signal or typing event whose target is a key of neither presence
\* map emits no event to any connection, the sender included, and leaves
\* the store, both presence maps and the connections' fields unchanged
C27_UnresolvedTargetDropped ==
    [][(last'.op \in {"signal", "typing"}
          /\ last'.req.to \notin DOMAIN onlinePeers
          /\ last'.req.to \notin DOMAIN onlineHashes)
         => /\ last'.emits = <<>>
            /\ UNCHANGED <<messages, presenceVars, socketVars, identities,
                           peerid_history>>]_vars

\* an event for a target that is in neither map has been dropped while the
\* sender is registered and a message is stored
C27_Witness ==
    /\ Signalled /\ last.emits = <<>>
    /\ last.req.to \notin DOMAIN onlinePeers /\ last.req.to \notin DOMAIN onlineHashes
    /\ sockState[last.who] = "open"
    /\ DOMAIN onlinePeers /= {} /\ DOMAIN onlineHashes /= {}
    /\ messages /= {}

(***************************************************************************)
(* A join and Sends whose steps interleave                                 *)
(***************************************************************************)
\* the pushes of the step are added to the history
RecordPushes ==
    /\ pushLog' = pushLog \cup {<<last'.emits[i].to, last'.emits[i].id>> :
                                  i \in DOMAIN last'.emits}
    /\ lastPeerReg' = lastPeerReg

\* the connection stays open and the queries of its joins succeed; a join
\* and a Send may start while the other is running
RaceNext ==
    \/ \E s \in StoreSockets : Connect(s)
    \/ \E s \in StoreSockets, peerId, mobileHash \in StoreValueInputs :
          JoinStart(s, peerId, mobileHash) /\ UNCHANGED histVars
    \/ \E s \in StoreSockets : JoinHashQuery(s)
    \/ \E s \in StoreSockets : JoinHashEmit(s) /\ RecordPushes
    \/ \E s \in StoreSockets : JoinPeerQuery(s)
    \/ \E s \in StoreSockets : JoinPeerEmit(s) /\ RecordPushes
    \/ \E id \in MsgIds, toHash, to \in StoreValueInputs, data \in StorePayloads :
          SendStart(id, toHash, to, data)
    \/ SendInsert
    \/ SendInsertFail
    \/ SendDeliver /\ RecordPushes

SpecRace == Init /\ [][RaceNext]_vars

\* the hash part of the latest join of s with hash h has run to its end
HashDrainDone(s, h) ==
    /\ sockState[s] = "open"
    /\ Truthy(h) /\ sockMobileHash[s] = h
    /\ joinH[s].pc \notin {"hashQuery", "hashEmit"}

\* no Send of this id is between its INSERT and its delivery attempt
SendAnswered(id) == ~(sendH.pc = "deliver" /\ sendH.id = id)

C29_JoinPushesAtMostOnce ==
    last.op \in {"join-hash-emit", "join-peer-emit"} =>
        \A r \in messages : Pushes(last.rows, last.who, r.id) <= 1

\* a join with hash "a" and peer id "a" has ended after pushing two
\* messages, one of them addressed to both the hash and the peer id, once
\* each
C29_Witness ==
    /\ last.op = "join-peer-emit"
    /\ last.req.toHash = "a" /\ last.req.to = "a"
    /\ Len(last.rows) = 2
    /\ \E r \in messages :
          /\ r.to_hash = "a" /\ r.to_peer = "a"
          /\ Pushes(last.rows, last.who, r.id) = 1
    /\ \E r \in messages :
          /\ r.to_hash = None /\ r.to_peer = "a"
          /\ Pushes(last.rows, last.who, r.id) = 1

(***************************************************************************)
(* Sends that repeat an id with other values                               *)
(***************************************************************************)
RepeatNext ==
    \/ \E s \in StoreSockets : Quiet /\ Connect(s)
    \/ \E s \in StoreSockets, peerId, mobileHash \in StoreValueInputs :
          Quiet /\ JoinStart(s, peerId, mobileHash) /\ UNCHANGED histVars
    \/ \E s \in StoreSockets : JoinSteps(s)
    \/ \E id \in DeliveryIds, toHash, to \in StoreValueInputs, data \in Payloads :
          Quiet /\ SendStart(id, toHash, to, data)
    \/ SendSteps
    \/ Quiet /\ Tick(1)

SpecRepeat == Init /\ [][RepeatNext]_vars

\* C30: no step of a Send changes or removes a stored row, so a Send that
\* repeats a stored id with another recipient hash, recipient peer id,
\* payload or time leaves the row as it was first written; the live push of
\* the repeated Send carries the payload of that request
C30_FirstWriteWins ==
    [][last'.op \in {"send-start", "send-insert", "send"} =>
         /\ \A r \in messages : r \in messages'
         /\ Stored(messages, last'.req.id) => messages' = messages
         /\ \A i \in DOMAIN last'.emits :
               /\ last'.emits[i].id = last'.req.id
               /\ last'.emits[i].data = last'.req.data]_vars

\* a Send that repeats a stored id with payload "y" and another recipient
\* has been pushed live with "y", and the stored row still has payload "x",
\* its first recipient and its first creation time
C30_Witness ==
    /\ last.op = "send" /\ last.status = 200 /\ last.live
    /\ Len(last.emits) = 1 /\ last.emits[1].data = "y"
    /\ last.req.data = "y"
    /\ \E r \in messages :
          /\ r.id = last.req.id /\ r.data = "x" /\ r.timestamp < now
          /\ r.to_hash /= Or(last.req.toHash, None)

(***************************************************************************)
(* Claims about the history and the stored peer id                         *)
(***************************************************************************)
\* C31: with one upsert at a time, a step that changes the stored peer id
\* of a hash from absent to P is the end of an upsert that has appended
\* exactly one history row, tagged FIRST_REGISTRATION with no old peer id
\* and new_peer_id = P, whether or not the hash had a row before; and when
\* no upsert is running and a hash has a stored peer id, the newest history
\* row of that hash has new_peer_id equal to it
C31_HistoryFollowsStoredPeerId ==
    /\ [][\A u \in Usernames :
            (~Truthy(StoredPeerId(identities, u)) /\ Truthy(StoredPeerId(identities', u)))
               => /\ last'.op = "identity" /\ last'.status = 200
                  /\ Len(peerid_history') = last'.req.hist0 + 1
                  /\ LET row == peerid_history'[Len(peerid_history')]
                     IN  /\ row.username_hash = u
                         /\ row.source = "FIRST_REGISTRATION"
                         /\ row.old_peer_id = None
                         /\ row.new_peer_id = StoredPeerId(identities', u)]_vars
    /\ [](\A u \in Usernames :
            (Quiet /\ Truthy(StoredPeerId(identities, u)))
               => LET h == HistoryOf(peerid_history, u)
                  IN  h /= <<>> /\ h[Len(h)].new_peer_id = StoredPeerId(identities, u))

====
